---- MODULE Spec2Model ----
(***************************************************************************)
(* FileAlchemy: the unified archive handle (structures/archive.py).        *)
(*                                                                         *)
(* State: one archive path on disk (the container file and the sibling     *)
(* scratch directory), the handle bound to it (format, password,           *)
(* temp_dir), the destination directory of the last extract and a record   *)
(* of the last call.  One action per public operation; errors are recorded *)
(* in last.res instead of being raised.                                    *)
(*                                                                         *)
(* Names and paths are sequences of one-character strings, so that         *)
(* str.startswith and str.replace are computed on characters.              *)
(***************************************************************************)
EXTENDS Integers, Sequences, FiniteSets, TLC

VARIABLES format, password, temp_dir, pyzipper, archive, scratch, dest, last

vars == <<format, password, temp_dir, pyzipper, archive, scratch, dest, last>>

(***************************************************************************)
(* Bounds of the model.                                                    *)
(***************************************************************************)
\* the longest member list a zip container is appended up to
MaxEntries == 2
\* the longest chain of suffixes of an archive path
MaxSuffixes == 2
\* the longest list of files handed to create_from
MaxFiles == 2

(***************************************************************************)
(* Vocabulary.                                                             *)
(***************************************************************************)
NoPw == "none"
Passwords == {NoPw, "p", "q"}

DIR == "dir"
Data == {"d1", "d2"}

TarFamily == {"tar", "tar.gz", "tar.bz2"}
Formats == {"zip", "7z", "gz", "bz2", "rar"} \cup TarFamily

\* error kinds: FileNotFoundError of add, NotImplementedError, ValueError,
\* RuntimeError of the missing AES codec, any other exception of a codec or the OS
OK == "ok"
SourceNotFound == "SourceNotFound"
UnsupportedOperation == "UnsupportedOperation"
MemberNotFound == "MemberNotFound"
PasswordCodecUnavailable == "PasswordCodecUnavailable"
CodecFailure == "CodecFailure"

(***************************************************************************)
(* Strings.                                                                *)
(***************************************************************************)
NoName == << >>

StartsWith(s, p) == Len(p) <= Len(s) /\ SubSeq(s, 1, Len(p)) = p

\* str.replace(old, new) for one-character old and new
Replace(s, old, new) == [i \in 1..Len(s) |-> IF s[i] = old THEN new ELSE s[i]]

\* pathlib: a / b, printed with the separator of the host
OsSep == "/"
Join(a, b) == a \o <<OsSep>> \o b

SlashAt(p) == {i \in 1..Len(p) : p[i] = "/"}
LastSlash(p) == IF SlashAt(p) = {} THEN 0 ELSE CHOOSE i \in SlashAt(p) : \A j \in SlashAt(p) : j <= i
BaseName(p) == SubSeq(p, LastSlash(p) + 1, Len(p))
Ancestors(p) == {SubSeq(p, 1, i - 1) : i \in SlashAt(p)}
Under(p, d) == StartsWith(p, d \o <<"/">>)

(***************************************************************************)
(* Directory trees: a function from the paths that exist below a root to   *)
(* DIR or to the data of a regular file.                                   *)
(***************************************************************************)
EmptyTree == [p \in {} |-> DIR]
Exists(t, p) == p \in DOMAIN t
IsDir(t, p) == p \in DOMAIN t /\ t[p] = DIR
IsFile(t, p) == p \in DOMAIN t /\ t[p] # DIR
Files(t) == {p \in DOMAIN t : t[p] # DIR}

\* shutil.rmtree(root / p), Path.unlink
RmTree(t, p) == [q \in {r \in DOMAIN t : r # p /\ ~Under(r, p)} |-> t[q]]
\* Path.mkdir(parents=True, exist_ok=True) of the parents of p
MkParents(t, p) == [q \in DOMAIN t \cup Ancestors(p) |-> IF q \in DOMAIN t THEN t[q] ELSE DIR]
\* open(root / p, 'wb').write(d)
PutFile(t, p, d) == [q \in DOMAIN t \cup {p} |-> IF q = p THEN d ELSE t[q]]
\* the OS refuses: a parent that is a regular file, or a directory in the way
ParentsOk(t, p) == \A q \in Ancestors(p) : ~IsFile(t, q)
CanWriteFile(t, p) == ParentsOk(t, p) /\ ~IsDir(t, p)
\* the tree s copied below the name root (shutil.copytree into a missing root)
Graft(t, root, s) ==
    [q \in DOMAIN t \cup {root} \cup {Join(root, r) : r \in DOMAIN s} |->
        IF q = root THEN DIR
        ELSE IF \E r \in DOMAIN s : q = Join(root, r)
             THEN s[CHOOSE r \in DOMAIN s : q = Join(root, r)]
             ELSE t[q]]

(***************************************************************************)
(* The inputs of the calls: what add's path argument points at, the        *)
(* archive names and the member names a caller passes.                     *)
(***************************************************************************)
nX == <<"x">>
nR == <<"r">>
nRX == <<"r", "x">>
nS == <<"s">>
nSY == <<"s", "/", "y">>

\* a directory r holding x and s/y
SrcTree == (nX :> "d1") @@ (nS :> DIR) @@ (nSY :> "d2")

SrcFiles == [kind : {"file"}, name : {nX}, data : Data, tree : {EmptyTree}]
SrcDirs == [kind : {"dir"}, name : {nR}, data : {DIR}, tree : {SrcTree}]
SrcMissing == [kind : {"missing"}, name : {nX}, data : {DIR}, tree : {EmptyTree}]
Sources == SrcFiles \cup SrcDirs \cup SrcMissing

\* arcname: None (NoName) or the name rx
ArcNames == {NoName, nRX}
\* member: a non-empty name
MemberInputs == {nR, Join(nR, nX), nRX}
\* an injected failure of the disk while a rebuild writes the container anew
\* (the extract and copy steps fail on their own: a wrong password, a
\* truncated container, a regular file where a directory is removed)
Faults == {"none", "recreate"}

\* every path a scratch directory can hold, in the order of a sorted walk
AllPaths ==
    << nR, Join(nR, nS), Join(nR, nSY), Join(nR, nX),
       nRX, Join(nRX, nS), Join(nRX, nSY), Join(nRX, nX), nX >>
PathSet == {AllPaths[i] : i \in 1..Len(AllPaths)}

(***************************************************************************)
(* The container on disk and the scratch directory beside it.              *)
(***************************************************************************)
Entry(n, isdir, d, pw) == [name |-> n, dir |-> isdir, data |-> d, enc |-> pw]

NoFile == [exists |-> FALSE, broken |-> FALSE, members |-> << >>]
Container(ms) == [exists |-> TRUE, broken |-> FALSE, members |-> ms]
\* a container opened for writing and never completed
Truncated == [exists |-> TRUE, broken |-> TRUE, members |-> << >>]

NoDir == [exists |-> FALSE, tree |-> EmptyTree]
DirOf(t) == [exists |-> TRUE, tree |-> t]

\* the path of the archive: a, with the suffixes of the format
Suffixes(fmt) ==
    CASE fmt = "tar.gz" -> <<".", "tar", ".", "gz">>
      [] fmt = "tar.bz2" -> <<".", "tar", ".", "bz2">>
      [] OTHER -> <<".", fmt>>
PathName(fmt) == <<"a">> \o Suffixes(fmt)
\* variant: the name with its suffix
Stem_Whole(name) == name

\* Path.stem: the name without its last suffix
Stem(name) ==
    LET dots == {i \in 2..Len(name) : name[i] = "."}
    IN IF dots = {} THEN name
       ELSE SubSeq(name, 1, (CHOOSE i \in dots : \A j \in dots : j <= i) - 1)

\* the members a walk of the tree t writes, each with the password pw
TreeToMembers(t, pw) ==
    LET present == SelectSeq(AllPaths, LAMBDA p : p \in DOMAIN t)
    IN [i \in 1..Len(present) |->
          IF t[present[i]] = DIR
          THEN Entry(present[i], TRUE, DIR, NoPw)
          ELSE Entry(present[i], FALSE, t[present[i]], pw)]

(***************************************************************************)
(* Reading: what the codecs do with the members of a container.            *)
(***************************************************************************)
\* a codec holding the password pw can decode the entry e
Readable(e, pw) == e.dir \/ e.enc = NoPw \/ e.enc = pw

\* the entries es written below t in order, up to the first one that the
\* codec cannot decode or the OS refuses
RECURSIVE WriteEntries(_, _, _)
WriteEntries(t, es, pw) ==
    IF es = << >> THEN [tree |-> t, ok |-> TRUE]
    ELSE LET e == Head(es)
         IN IF ~Readable(e, pw) THEN [tree |-> t, ok |-> FALSE]
            ELSE IF e.dir
            THEN IF ParentsOk(t, e.name) /\ ~IsFile(t, e.name)
                 THEN WriteEntries(PutFile(MkParents(t, e.name), e.name, DIR), Tail(es), pw)
                 ELSE [tree |-> t, ok |-> FALSE]
            ELSE IF CanWriteFile(t, e.name)
                 THEN WriteEntries(PutFile(MkParents(t, e.name), e.name, e.data), Tail(es), pw)
                 ELSE [tree |-> t, ok |-> FALSE]

\* variant: the prefix test without the separator
MatchesMember_NoSlash(f, member) == f = member \/ StartsWith(f, member)

\* f == member or f.startswith(member + '/')
MatchesMember(f, member) == f = member \/ StartsWith(f, member \o <<"/">>)

\* targets = [f for f in all_files if ...]
Targets(ms, member) == SelectSeq(ms, LAMBDA e : MatchesMember(e.name, member))

\* ZipFile.getinfo(name): the last entry written under the name
GetInfo(ms, n) ==
    ms[CHOOSE i \in 1..Len(ms) : ms[i].name = n /\ \A j \in 1..Len(ms) : ms[j].name = n => j <= i]


\* name.replace('\\', '/')
Normalize(n) == Replace(n, "\\", "/")
NamesOf(ms) == [i \in 1..Len(ms) |-> Normalize(ms[i].name)]

\* a codec opens the container for reading
CanOpen(arch) == arch.exists /\ ~arch.broken

\* __iter__: the names the handle yields, or the error it raises
\* (caught: an exception was caught inside the call)
IterZipWith(codec, arch) ==
    IF codec /\ CanOpen(arch)
    THEN [res |-> OK, names |-> NamesOf(arch.members), caught |-> FALSE]
    ELSE [res |-> CodecFailure, names |-> << >>, caught |-> FALSE]

\* variant: a container that cannot be read is listed as an empty one
Iter_Swallow(fmt, aes, arch) ==
    CASE fmt = "zip" ->
           LET first == IterZipWith(aes, arch)
           IN IF first.res = OK THEN first
              ELSE [IterZipWith(TRUE, arch) EXCEPT !.caught = TRUE]
      [] fmt = "7z" \/ fmt \in TarFamily \/ fmt = "rar" ->
           IF CanOpen(arch)
           THEN [res |-> OK, names |-> NamesOf(arch.members), caught |-> FALSE]
           ELSE [res |-> OK, names |-> << >>, caught |-> TRUE]
      [] fmt \in {"gz", "bz2"} ->
           [res |-> OK, names |-> <<Stem(PathName(fmt))>>, caught |-> FALSE]
      [] OTHER -> [res |-> UnsupportedOperation, names |-> << >>, caught |-> FALSE]

Iter(fmt, aes, arch) ==
    CASE fmt = "zip" ->
           LET first == IterZipWith(aes, arch)
           IN IF first.res = OK THEN first
              ELSE [IterZipWith(TRUE, arch) EXCEPT !.caught = TRUE]
      [] fmt = "7z" \/ fmt \in TarFamily \/ fmt = "rar" ->
           IF CanOpen(arch)
           THEN [res |-> OK, names |-> NamesOf(arch.members), caught |-> FALSE]
           ELSE [res |-> CodecFailure, names |-> << >>, caught |-> FALSE]
      [] fmt \in {"gz", "bz2"} ->
           [res |-> OK, names |-> <<Stem(PathName(fmt))>>, caught |-> FALSE]
      [] OTHER -> [res |-> UnsupportedOperation, names |-> << >>, caught |-> FALSE]

\* list_files
ListFiles(fmt, aes, arch) == Iter(fmt, aes, arch)

\* one `with ...ZipFile(self.path, 'r') as zf:` body of extract, run by a codec
\* that holds the password pw, on the destination as it is (t)
ExtractZipWith(arch, member, pw, t) ==
    IF ~CanOpen(arch) THEN [res |-> CodecFailure, tree |-> t, caught |-> FALSE]
    ELSE LET chosen == IF member # NoName THEN Targets(arch.members, member) ELSE arch.members
             es == [i \in 1..Len(chosen) |-> GetInfo(arch.members, chosen[i].name)]
         IN IF member # NoName /\ chosen = << >>
            THEN [res |-> MemberNotFound, tree |-> t, caught |-> FALSE]
            ELSE LET w == WriteEntries(t, es, pw)
                 IN [res |-> IF w.ok THEN OK ELSE CodecFailure, tree |-> w.tree,
                     caught |-> FALSE]

\* variant: the AES codec is never given the password of the handle
ExtractZip_NoPwd(arch, member, pw, aes) ==
    LET first == IF aes THEN ExtractZipWith(arch, member, NoPw, EmptyTree)
                 ELSE [res |-> CodecFailure, tree |-> EmptyTree, caught |-> FALSE]
    IN IF first.res = OK THEN first
       ELSE [ExtractZipWith(arch, member, NoPw, first.tree) EXCEPT !.caught = TRUE]

\* extract on a zip handle: the AES codec first, the plain codec on any exception
ExtractZip(arch, member, pw, aes) ==
    LET first == IF aes THEN ExtractZipWith(arch, member, pw, EmptyTree)
                 ELSE [res |-> CodecFailure, tree |-> EmptyTree, caught |-> FALSE]
    IN IF first.res = OK THEN first
       ELSE [ExtractZipWith(arch, member, NoPw, first.tree) EXCEPT !.caught = TRUE]

\* variant: an empty list of targets is handed to the codec
ExtractMembers_NoCheck(arch, member, pw) ==
    IF ~CanOpen(arch) THEN [res |-> CodecFailure, tree |-> EmptyTree, caught |-> FALSE]
    ELSE LET chosen == IF member # NoName THEN Targets(arch.members, member) ELSE arch.members
             w == WriteEntries(EmptyTree, chosen, pw)
         IN [res |-> IF w.ok THEN OK ELSE CodecFailure, tree |-> w.tree, caught |-> FALSE]

\* extract on a 7z, tar-family or rar handle
ExtractMembers(arch, member, pw) ==
    IF ~CanOpen(arch) THEN [res |-> CodecFailure, tree |-> EmptyTree, caught |-> FALSE]
    ELSE LET chosen == IF member # NoName THEN Targets(arch.members, member) ELSE arch.members
         IN IF member # NoName /\ chosen = << >>
            THEN [res |-> MemberNotFound, tree |-> EmptyTree, caught |-> FALSE]
            ELSE LET w == WriteEntries(EmptyTree, chosen, pw)
                 IN [res |-> IF w.ok THEN OK ELSE CodecFailure, tree |-> w.tree, caught |-> FALSE]

\* extract on a gz or bz2 handle: the stream, written to path / self.path.stem
ExtractStream(fmt, arch) ==
    IF ~CanOpen(arch) THEN [res |-> CodecFailure, tree |-> EmptyTree, caught |-> FALSE]
    ELSE [res |-> OK, tree |-> PutFile(EmptyTree, Stem(PathName(fmt)), arch.members[1].data),
          caught |-> FALSE]

\* extract(member, path) into a fresh directory
Extract(fmt, pw, aes, arch, member) ==
    CASE fmt = "zip" -> ExtractZip(arch, member, pw, aes)
      [] fmt = "7z" -> ExtractMembers(arch, member, pw)
      [] fmt \in TarFamily -> ExtractMembers(arch, member, NoPw)
      [] fmt = "rar" -> ExtractMembers(arch, member, pw)
      [] fmt \in {"gz", "bz2"} -> ExtractStream(fmt, arch)
      [] OTHER -> [res |-> UnsupportedOperation, tree |-> EmptyTree, caught |-> FALSE]

(***************************************************************************)
(* Writing.  A call works on st = [archive, scratch, temp_dir, res,        *)
(* caught, cleanups]: the disk and the handle as the call leaves them, OK  *)
(* or the error that ended it, whether an exception was caught on the way, *)
(* and how many times cleanup() removed a scratch directory.               *)
(***************************************************************************)
Raise(st, e) == [st EXCEPT !.res = e]

\* variant: the container is opened for appending
Create_Append(fmt, pw, aes, st) ==
    CASE fmt = "zip" ->
           [st EXCEPT !.archive = Container(st.archive.members),
                      !.caught = (pw # NoPw /\ ~aes)]
      [] fmt = "7z" -> [st EXCEPT !.archive = Container(st.archive.members)]
      [] fmt \in TarFamily -> [st EXCEPT !.archive = Container(st.archive.members)]
      [] OTHER -> st

\* create(): on a zip handle with a password the import of the AES codec is
\* inside the try, and any exception falls back to a plain empty zip
Create(fmt, pw, aes, st) ==
    CASE fmt = "zip" ->
           [st EXCEPT !.archive = Container(<< >>), !.caught = (pw # NoPw /\ ~aes)]
      [] fmt = "7z" -> [st EXCEPT !.archive = Container(<< >>)]
      [] fmt \in TarFamily -> [st EXCEPT !.archive = Container(<< >>)]
      [] OTHER -> st

\* cleanup()
Cleanup(st) ==
    IF st.temp_dir /\ st.scratch.exists
    THEN [st EXCEPT !.scratch = NoDir, !.temp_dir = FALSE, !.cleanups = @ + 1]
    ELSE st

\* variant: the container is not extracted into the scratch directory
PrepareTemp_NoExtract(st, pw, fault) ==
    LET c == Cleanup(st)
    IN [c EXCEPT !.temp_dir = TRUE, !.scratch = DirOf(c.scratch.tree)]

\* the body shared by _prepare_7z_temp and _prepare_tar_temp: cleanup, mkdir
\* with exist_ok, then extractall of the container, if there is one
PrepareTemp(st, pw, fault) ==
    LET c == Cleanup(st)
        made == [c EXCEPT !.temp_dir = TRUE, !.scratch = DirOf(c.scratch.tree)]
    IN IF ~made.archive.exists THEN made
       ELSE IF ~CanOpen(made.archive) THEN Raise(made, CodecFailure)
       ELSE LET w == WriteEntries(made.scratch.tree, made.archive.members, pw)
                got == [made EXCEPT !.scratch = DirOf(w.tree)]
            IN IF w.ok THEN got ELSE Raise(got, CodecFailure)

Prepare7zTemp(st, pw, fault) == PrepareTemp(st, pw, fault)
PrepareTarTemp(st, fault) == PrepareTemp(st, NoPw, fault)

\* the body shared by _recreate_7z and _recreate_tar: the container is opened
\* for writing, the scratch directory walked into it, then cleanup
Recreate(st, pw, fault) ==
    IF fault = "recreate" THEN Raise([st EXCEPT !.archive = Truncated], CodecFailure)
    ELSE Cleanup([st EXCEPT !.archive = Container(TreeToMembers(st.scratch.tree, pw))])

Recreate7z(st, pw, fault) == Recreate(st, pw, fault)
RecreateTar(st, fault) == Recreate(st, NoPw, fault)

\* _add_to_7z: whatever is at the name goes first, then the file is copied in
AddTo7z(st, pw, src, arcname, fault) ==
    LET p == Prepare7zTemp(st, pw, fault)
        t == p.scratch.tree
        cleared == IF Exists(t, arcname) THEN RmTree(t, arcname) ELSE t
        parents == MkParents(cleared, arcname)
    IN IF p.res # OK THEN p
       ELSE IF ~ParentsOk(cleared, arcname)
       THEN Raise([p EXCEPT !.scratch = DirOf(cleared)], CodecFailure)
       ELSE Recreate7z([p EXCEPT !.scratch = DirOf(PutFile(parents, arcname, src.data))], pw, fault)

\* shutil.copy2(path, dest): into dest when dest is a directory
CopyTarget(t, dst, src) == IF IsDir(t, dst) THEN Join(dst, src.name) ELSE dst

\* _add_to_tar
AddToTar(st, src, arcname, fault) ==
    LET p == PrepareTarTemp(st, fault)
        t == p.scratch.tree
        parents == MkParents(t, arcname)
        target == CopyTarget(parents, arcname, src)
    IN IF p.res # OK THEN p
       ELSE IF ~ParentsOk(t, arcname) THEN Raise(p, CodecFailure)
       ELSE IF IsDir(parents, target)
       THEN Raise([p EXCEPT !.scratch = DirOf(parents)], CodecFailure)
       ELSE RecreateTar([p EXCEPT !.scratch = DirOf(PutFile(parents, target, src.data))], fault)

\* the copy of a directory into the scratch directory p left: rmtree of what
\* is at the name (which raises on a regular file), then copytree
CopyTreeInto(p, src, arcroot) ==
    LET t == p.scratch.tree
        cleared == IF Exists(t, arcroot) THEN RmTree(t, arcroot) ELSE t
    IN IF IsFile(t, arcroot) \/ ~ParentsOk(t, arcroot)
       THEN Raise(p, CodecFailure)
       ELSE [p EXCEPT !.scratch = DirOf(Graft(MkParents(cleared, arcroot), arcroot, src.tree))]

\* _add_directory on a 7z handle
AddDirTo7z(st, pw, src, arcroot, fault) ==
    LET p == Prepare7zTemp(st, pw, fault)
        c == CopyTreeInto(p, src, arcroot)
    IN IF p.res # OK THEN p
       ELSE IF c.res # OK THEN c
       ELSE Recreate7z(c, pw, fault)

\* _add_dir_to_tar
AddDirToTar(st, src, arcroot, fault) ==
    LET p == PrepareTarTemp(st, fault)
        c == CopyTreeInto(p, src, arcroot)
    IN IF p.res # OK THEN p
       ELSE IF c.res # OK THEN c
       ELSE RecreateTar(c, fault)

\* variant: a container that is not there is rebuilt all the same
WriteTar_Rebuild(st, src, arcname) ==
    IF src.kind = "dir" THEN AddDirToTar(st, src, arcname, "none")
    ELSE AddToTar(st, src, arcname, "none")

\* tarfile.open(self.path, 'w...') with tf.add(path, arcname): a new container
\* of the file, or of the directory and all below it
WriteTar(st, src, arcname) ==
    LET t == IF src.kind = "dir" THEN Graft(EmptyTree, arcname, src.tree)
             ELSE PutFile(EmptyTree, arcname, src.data)
    IN [st EXCEPT !.archive = Container(TreeToMembers(t, NoPw))]

\* the regular files of a directory as path.rglob('*') meets them, each under
\* str(Path(arcroot) / rel_path).replace(os.sep, '/')
SrcWalk == <<nS, nSY, nX>>
DirEntries(src, arcroot, pw) ==
    LET files == SelectSeq(SrcWalk, LAMBDA r : IsFile(src.tree, r))
    IN [i \in 1..Len(files) |->
          Entry(Replace(Join(arcroot, files[i]), OsSep, "/"), FALSE, src.tree[files[i]], pw)]

\* variant: without the AES codec the entries are appended all the same
AppendZip_NoCheck(st, pw, aes, es) ==
    [st EXCEPT !.archive = Container(st.archive.members \o es)]

\* variant: an entry written again takes the place of the one before it
AppendZip_Replace(st, pw, aes, es) ==
    IF pw # NoPw /\ ~aes THEN Raise(st, PasswordCodecUnavailable)
    ELSE LET kept == SelectSeq(st.archive.members,
                               LAMBDA e : \A k \in 1..Len(es) : es[k].name # e.name)
         IN [st EXCEPT !.archive = Container(kept \o es)]

\* the zip branches of add and _add_directory: the entries es appended, by the
\* AES codec when the handle has a password (setencryption(WZ_AES, nbits=256)
\* only stores its arguments, so the handler around it never runs)
AppendZip(st, pw, aes, es) ==
    IF pw # NoPw /\ ~aes THEN Raise(st, PasswordCodecUnavailable)
    ELSE [st EXCEPT !.archive = Container(st.archive.members \o es)]

\* variant: the tag tested for a suffix instead of membership
IsTarFormat_Suffix(fmt) == fmt \in {"tar", "tar.gz", "tar.bz2", "gz", "bz2"}

\* self.format in ('tar', 'tar.gz', 'tar.bz2')
IsTarFormat(fmt) == fmt \in {"tar", "tar.gz", "tar.bz2"}

\* variant: the archive name is ignored
ArcRoot_OwnName(src, arcname) == src.name

\* arcroot = arcroot or path.name; arcname = arcname or path.name
ArcRoot(src, arcname) == IF arcname # NoName THEN arcname ELSE src.name

\* _add_directory(path, arcroot)
AddDirectory(fmt, pw, aes, st, src, arcname, fault) ==
    LET arcroot == ArcRoot(src, arcname)
    IN CASE fmt = "zip" -> AppendZip(st, pw, aes, DirEntries(src, arcroot, pw))
         [] fmt = "7z" -> AddDirTo7z(st, pw, src, arcroot, fault)
         [] IsTarFormat(fmt) ->
              IF st.archive.exists THEN AddDirToTar(st, src, arcroot, fault)
              ELSE WriteTar(st, src, arcroot)
         [] OTHER -> Raise(st, UnsupportedOperation)

\* variant: the source is not looked at before the dispatch
SourceExists_Unchecked(src) == TRUE

\* path.exists()
SourceExists(src) == src.kind # "missing"

\* add(path, arcname)
Add(fmt, pw, aes, st, src, arcname, fault) ==
    LET name == ArcRoot(src, arcname)
    IN IF ~SourceExists(src) THEN Raise(st, SourceNotFound)
       ELSE IF src.kind = "dir" THEN AddDirectory(fmt, pw, aes, st, src, arcname, fault)
       ELSE CASE fmt = "zip" -> AppendZip(st, pw, aes, <<Entry(name, FALSE, src.data, pw)>>)
              [] fmt = "7z" -> AddTo7z(st, pw, src, name, fault)
              [] IsTarFormat(fmt) ->
                   IF st.archive.exists THEN AddToTar(st, src, name, fault)
                   ELSE WriteTar(st, src, name)
              [] OTHER -> Raise(st, UnsupportedOperation)

\* the add runs the rebuild strategy
UsesRebuild(fmt, st, src) ==
    SourceExists(src) /\ (fmt = "7z" \/ (IsTarFormat(fmt) /\ st.archive.exists))

(***************************************************************************)
(* The constructor: the format tag of a handle, from the suffixes of the   *)
(* path (Path.suffixes, each with its dot) and the format argument.  Tags, *)
(* suffixes and format arguments are sequences of characters here.         *)
(***************************************************************************)
tZip == <<"z", "i", "p">>
t7z == <<"7", "z">>
tTar == <<"t", "a", "r">>
tGz == <<"g", "z">>
tBz2 == <<"b", "z", "2">>
tRar == <<"r", "a", "r">>
tTgz == <<"t", "g", "z">>
tTbz2 == <<"t", "b", "z", "2">>
tTarGz == tTar \o <<".">> \o tGz
tTarBz2 == tTar \o <<".">> \o tBz2
Dot(s) == <<".">> \o s

\* format is None
NoFormat == <<"None">>
\* ValueError of the constructor
UnresolvedFormat == "UnresolvedFormat"

\* str.lower()
UpperLetters ==
    << "A", "B", "C", "D", "E", "F", "G", "H", "I", "J", "K", "L", "M",
       "N", "O", "P", "Q", "R", "S", "T", "U", "V", "W", "X", "Y", "Z" >>
LowerLetters ==
    << "a", "b", "c", "d", "e", "f", "g", "h", "i", "j", "k", "l", "m",
       "n", "o", "p", "q", "r", "s", "t", "u", "v", "w", "x", "y", "z" >>
LowerChar(c) ==
    IF \E i \in 1..Len(UpperLetters) : UpperLetters[i] = c
    THEN LowerLetters[CHOOSE i \in 1..Len(UpperLetters) : UpperLetters[i] = c]
    ELSE c
Lower(s) == [i \in 1..Len(s) |-> LowerChar(s[i])]

\* variant: the short extensions of compressed tar are kept as they are
ExtMap_NoAlias ==
    (Dot(tZip) :> tZip) @@ (Dot(t7z) :> t7z) @@ (Dot(tTar) :> tTar) @@
    (Dot(tGz) :> tGz) @@ (Dot(tBz2) :> tBz2) @@ (Dot(tRar) :> tRar) @@
    (Dot(tTgz) :> tTgz) @@ (Dot(tTbz2) :> tTbz2)

\* ext_map
ExtMap ==
    (Dot(tZip) :> tZip) @@ (Dot(t7z) :> t7z) @@ (Dot(tTar) :> tTar) @@
    (Dot(tGz) :> tGz) @@ (Dot(tBz2) :> tBz2) @@ (Dot(tRar) :> tRar) @@
    (Dot(tTgz) :> tTarGz) @@ (Dot(tTbz2) :> tTarBz2)

\* ext_map.get(key, key[1:])
Get(map, key) == IF key \in DOMAIN map THEN map[key] ELSE Tail(key)

\* variant: a path without a suffix is taken for a zip
Resolve_Default(suffixes, fmt) ==
    IF fmt = NoFormat
    THEN IF suffixes = << >> THEN [res |-> OK, format |-> tZip]
         ELSE LET n == Len(suffixes)
                  compound_ext == IF n >= 2 THEN suffixes[n - 1] \o suffixes[n] ELSE << >>
              IN IF n >= 2 /\ compound_ext \in {Dot(tTarGz), Dot(tTarBz2)}
                 THEN [res |-> OK, format |-> Get(ExtMap, compound_ext)]
                 ELSE [res |-> OK, format |-> Get(ExtMap, suffixes[n])]
    ELSE [res |-> OK, format |-> Lower(fmt)]

\* __init__: self.format, or the error raised
Resolve(suffixes, fmt) ==
    IF fmt = NoFormat
    THEN IF suffixes = << >> THEN [res |-> UnresolvedFormat, format |-> NoFormat]
         ELSE LET n == Len(suffixes)
                  compound_ext == IF n >= 2 THEN suffixes[n - 1] \o suffixes[n] ELSE << >>
              IN IF n >= 2 /\ compound_ext \in {Dot(tTarGz), Dot(tTarBz2)}
                 THEN [res |-> OK, format |-> Get(ExtMap, compound_ext)]
                 ELSE [res |-> OK, format |-> Get(ExtMap, suffixes[n])]
    ELSE [res |-> OK, format |-> Lower(fmt)]

\* the tags of the handles of the state machine below, in characters
Chars ==
    ("zip" :> tZip) @@ ("7z" :> t7z) @@ ("tar" :> tTar) @@ ("gz" :> tGz) @@
    ("bz2" :> tBz2) @@ ("rar" :> tRar) @@ ("tar.gz" :> tTarGz) @@ ("tar.bz2" :> tTarBz2)

\* the inputs of the constructor
SuffixInputs ==
    { Dot(tZip), Dot(<<"Z", "I", "P">>), Dot(t7z), Dot(tTar), Dot(tGz), Dot(tBz2),
      Dot(tRar), Dot(tTgz), Dot(tTbz2), Dot(<<"t", "x", "t">>) }
SuffixLists == UNION {[1..n -> SuffixInputs] : n \in 0..MaxSuffixes}
FormatInputs ==
    { NoFormat, tZip, <<"Z", "I", "P">>, <<"T", "a", "r", ".", "G", "z">>, tTgz,
      <<"f", "o", "o">> }

(***************************************************************************)
(* create_from(path, format, files, password).                             *)
(***************************************************************************)
\* the suffixes of the archive path of the state machine below
PathSuffixes(fmt) ==
    CASE fmt = "tar.gz" -> <<Dot(tTar), Dot(tGz)>>
      [] fmt = "tar.bz2" -> <<Dot(tTar), Dot(tBz2)>>
      [] OTHER -> <<Dot(Chars[fmt])>>

\* the tag of a handle, as the state machine names it
TagOf(chars) == CHOOSE t \in DOMAIN Chars : Chars[t] = chars

\* supported_formats
SupportedFormats == {tZip, t7z, tTar, tTarGz, tTarBz2}

\* for item in files: archive._add_directory(item) if item.is_dir() else archive.add(item)
RECURSIVE AddEach(_, _, _, _, _)
AddEach(fmt, pw, aes, st, files) ==
    IF files = << >> \/ st.res # OK THEN st
    ELSE LET item == Head(files)
             next == IF item.kind = "dir"
                     THEN AddDirectory(fmt, pw, aes, st, item, NoName, "none")
                     ELSE Add(fmt, pw, aes, st, item, NoName, "none")
         IN AddEach(fmt, pw, aes, next, Tail(files))

\* create_from: st is the disk with the handle just constructed; the format
\* argument raw is what the membership test and the branches look at
CreateFrom(suffixes, raw, pw, aes, st, files) ==
    LET handle == Resolve(suffixes, raw)
    IN IF handle.res # OK THEN Raise(st, handle.res)
       ELSE IF raw \notin SupportedFormats THEN Raise(st, UnsupportedOperation)
       ELSE IF files = << >>
       THEN IF raw = tZip \/ raw = t7z \/ raw \in {tTar, tTarGz, tTarBz2}
            THEN [st EXCEPT !.archive = Container(<< >>)]
            ELSE st
       ELSE AddEach(TagOf(handle.format), pw, aes, st, files)

\* the format arguments and the file lists of the calls
RawInputs ==
    {Chars[t] : t \in DOMAIN Chars} \cup
    { <<"Z", "I", "P">>, <<"R", "A", "R">> }
RawFormats(fmt) == {raw \in RawInputs : Lower(raw) = Chars[fmt]}
ListSources == {src \in SrcFiles \cup SrcDirs : src.data \in {"d1", DIR}}
\* lists that name no source twice
FileLists ==
    {fs \in UNION {[1..n -> ListSources] : n \in 0..MaxFiles} :
        \A i \in 1..Len(fs), j \in 1..Len(fs) : fs[i] = fs[j] => i = j}

(***************************************************************************)
(* The state machine.                                                      *)
(***************************************************************************)
\* a rar archive and a gzip/bzip2 stream made by other tools
RarMembers(pw) ==
    << Entry(Join(nR, nX), FALSE, "d1", pw), Entry(Join(nR, nSY), FALSE, "d2", pw),
       Entry(nRX, FALSE, "d2", pw) >>
StreamMembers == << Entry(NoName, FALSE, "d1", NoPw) >>
\* a zip written with a name that holds a backslash (zipfile keeps it where
\* the separator of the host is the slash)
nRbX == <<"r", "\\", "x">>
ForeignZipMembers == << Entry(nRbX, FALSE, "d2", NoPw) >>

State ==
    [archive |-> archive, scratch |-> scratch, temp_dir |-> temp_dir, res |-> OK,
     caught |-> FALSE, cleanups |-> 0]

Call(op) ==
    [op |-> op, res |-> OK, kind |-> "none", name |-> NoName, data |-> DIR,
     member |-> NoName, rebuild |-> FALSE, names |-> << >>, added |-> << >>,
     caught |-> FALSE, raw |-> NoFormat, files |-> << >>, cleanups |-> 0]

Init ==
    /\ format \in Formats
    /\ password = NoPw
    /\ temp_dir = FALSE
    /\ pyzipper \in BOOLEAN
    /\ format # "zip" => pyzipper
    /\ archive \in CASE format = "rar" -> {Container(RarMembers(pw)) : pw \in {NoPw, "p"}}
                     [] format \in {"gz", "bz2"} -> {Container(StreamMembers)}
                     [] format = "zip" -> {NoFile, Container(ForeignZipMembers)}
                     [] OTHER -> {NoFile}
    /\ scratch = NoDir
    /\ dest = EmptyTree
    /\ last = Call("init")

\* a new handle on the same path: Archive(path, format, pw)
Reopen ==
    \E pw \in Passwords :
        /\ pw # password \/ temp_dir
        /\ pw # NoPw => format \in {"zip", "7z", "rar"}
        /\ password' = pw
        /\ temp_dir' = FALSE
        /\ dest' = EmptyTree
        /\ last' = Call("reopen")
        /\ UNCHANGED <<format, pyzipper, archive, scratch>>

DoCreate ==
    \E r \in {Create(format, password, pyzipper, State)} :
       /\ archive' = r.archive
       /\ scratch' = r.scratch
       /\ temp_dir' = r.temp_dir
       /\ dest' = EmptyTree
       /\ last' = [Call("create") EXCEPT !.res = r.res, !.caught = r.caught]
       /\ UNCHANGED <<format, password, pyzipper>>

DoAdd ==
    \E src \in Sources, arcname \in ArcNames, fault \in Faults :
        /\ fault # "none" => UsesRebuild(format, State, src)
        /\ \E r \in {Add(format, password, pyzipper, State, src, arcname, fault)} :
           /\ format = "zip" => Len(r.archive.members) <= MaxEntries
           /\ archive' = r.archive
           /\ scratch' = r.scratch
           /\ temp_dir' = r.temp_dir
           /\ dest' = EmptyTree
           /\ last' = [Call("add") EXCEPT
                         !.res = r.res, !.caught = r.caught,
                         !.kind = src.kind, !.data = src.data,
                         !.name = IF arcname # NoName THEN arcname ELSE src.name,
                         !.rebuild = UsesRebuild(format, State, src),
                         !.cleanups = r.cleanups]
           /\ UNCHANGED <<format, password, pyzipper>>

DoExtract ==
    \E member \in {NoName} \cup MemberInputs :
        \E r \in {Extract(format, password, pyzipper, archive, member)} :
           /\ dest' = r.tree
           /\ last' = [Call("extract") EXCEPT
                         !.res = r.res, !.caught = r.caught, !.member = member,
                         !.added = IF last.op = "add" /\ last.res = OK
                                   THEN <<last.kind, last.name, last.data>> ELSE << >>]
           /\ UNCHANGED <<format, password, temp_dir, pyzipper, archive, scratch>>

DoList ==
    \E r \in {ListFiles(format, pyzipper, archive)} :
       /\ dest' = EmptyTree
       /\ last' = [Call("list") EXCEPT
                     !.res = r.res, !.caught = r.caught, !.names = r.names]
       /\ UNCHANGED <<format, password, temp_dir, pyzipper, archive, scratch>>

\* Archive.create_from(path, raw, files, password): a new handle on the same
\* path, with the password of the handle before it (Reopen changes it)
DoCreateFrom ==
    \E raw \in RawFormats(format), files \in FileLists :
        \E r \in {CreateFrom(PathSuffixes(format), raw, password, pyzipper,
                             [State EXCEPT !.temp_dir = FALSE], files)} :
           /\ format = "zip" => Len(r.archive.members) <= MaxEntries
           /\ archive' = r.archive
           /\ scratch' = r.scratch
           /\ temp_dir' = r.temp_dir
           /\ dest' = EmptyTree
           /\ last' = [Call("create_from") EXCEPT
                         !.res = r.res, !.caught = r.caught, !.raw = raw, !.files = files]
           /\ UNCHANGED <<format, password, pyzipper>>

\* variant: cleanup forgets the password of the handle
DoCleanup_Forget ==
    \E r \in {Cleanup(State)} :
       /\ scratch' = r.scratch
       /\ temp_dir' = r.temp_dir
       /\ password' = NoPw
       /\ dest' = EmptyTree
       /\ last' = Call("cleanup")
       /\ UNCHANGED <<format, pyzipper, archive>>

\* cleanup(), called by the owner of the handle
DoCleanup ==
    \E r \in {Cleanup(State)} :
       /\ scratch' = r.scratch
       /\ temp_dir' = r.temp_dir
       /\ dest' = EmptyTree
       /\ last' = Call("cleanup")
       /\ UNCHANGED <<format, password, pyzipper, archive>>

Next ==
    \/ Reopen \/ DoCreate \/ DoAdd \/ DoExtract \/ DoList \/ DoCleanup
    \/ DoCreateFrom

Spec == Init /\ [][Next]_vars

(***************************************************************************)
(* The constructor alone: Archive(path, format) on every path and format   *)
(* argument of the inputs.  The disk takes no part; format holds the tag   *)
(* in characters, NoFormat while there is no handle.                       *)
(***************************************************************************)
InitResolve ==
    /\ format = NoFormat
    /\ password = NoPw
    /\ temp_dir = FALSE
    /\ pyzipper = TRUE
    /\ archive = NoFile
    /\ scratch = NoDir
    /\ dest = EmptyTree
    /\ last \in [op : {"input"}, suffixes : SuffixLists, explicit : FormatInputs, res : {OK}]

Construct ==
    /\ last.op = "input"
    /\ \E r \in {Resolve(last.suffixes, last.explicit)} :
          /\ format' = r.format
          /\ last' = [last EXCEPT !.op = "construct", !.res = r.res]
    /\ UNCHANGED <<password, temp_dir, pyzipper, archive, scratch, dest>>

NextResolve == Construct

SpecResolve == InitResolve /\ [][NextResolve]_vars

(***************************************************************************)
(* Two handles on two different archive paths of one directory, each       *)
(* running one _add_directory(r) by the rebuild strategy, step by step:    *)
(* _prepare_*_temp, the copy into the scratch directory, _recreate_*.      *)
(* Here format, temp_dir and last are functions of the handle, archive is  *)
(* a function of the archive path and scratch of the scratch path;         *)
(* temp_dir holds the scratch path of the handle, NoName for None.         *)
(***************************************************************************)
Handles == {"h1", "h2"}
Bases == {<<"a">>, <<"b">>}
RebuildFormats == {"7z"} \cup TarFamily

\* the archive path: a base name with the suffixes of the format
PathOf(base, fmt) == base \o Suffixes(fmt)
ArchivePaths == {PathOf(b, f) : b \in Bases, f \in RebuildFormats}

\* self.path.parent / f"~temp_{self.path.stem}"
ScratchPath(path) == <<"~", "t", "e", "m", "p", "_">> \o Stem(path)

\* what a step of the handle h works on: its container, the directory at
\* its scratch path, and whether self.temp_dir is set
View(h) ==
    [archive |-> archive[last[h].path], scratch |-> scratch[ScratchPath(last[h].path)],
     temp_dir |-> temp_dir[h] # NoName, res |-> OK, caught |-> FALSE, cleanups |-> 0]

\* the step of h leaves r
Store(h, r, then) ==
    /\ archive' = [archive EXCEPT ![last[h].path] = r.archive]
    /\ scratch' = [scratch EXCEPT ![ScratchPath(last[h].path)] = r.scratch]
    /\ temp_dir' = [temp_dir EXCEPT
                      ![h] = IF r.temp_dir THEN ScratchPath(last[h].path) ELSE NoName]
    /\ last' = [last EXCEPT ![h].pc = IF r.res = OK THEN then ELSE "raised", ![h].res = r.res]
    /\ UNCHANGED <<format, password, pyzipper, dest>>

\* each container holds one file, x, with the data of its handle
InitRebuild ==
    /\ \E p1 \in ArchivePaths :
       \E p2 \in ArchivePaths \ {p1} :
          /\ last = ("h1" :> [pc |-> "idle", res |-> OK, path |-> p1]) @@
                    ("h2" :> [pc |-> "idle", res |-> OK, path |-> p2])
          /\ archive = (p1 :> Container(<<Entry(nX, FALSE, "d1", NoPw)>>)) @@
                       (p2 :> Container(<<Entry(nX, FALSE, "d2", NoPw)>>))
          /\ scratch = [d \in {ScratchPath(p1), ScratchPath(p2)} |-> NoDir]
    /\ format \in [Handles -> RebuildFormats]
    /\ \A h \in Handles : last[h].path \in {PathOf(b, format[h]) : b \in Bases}
    /\ temp_dir = [h \in Handles |-> NoName]
    /\ password = NoPw
    /\ pyzipper = TRUE
    /\ dest = EmptyTree

\* _recreate_* beside another rebuild: the walk of a scratch directory that
\* is gone raises after the container was opened for writing
RecreateShared(st, pw) ==
    IF ~st.scratch.exists THEN Raise([st EXCEPT !.archive = Truncated], CodecFailure)
    ELSE Recreate(st, pw, "none")

\* temp_dir = self._prepare_7z_temp() / self._prepare_tar_temp()
PrepareStep(h) ==
    /\ last[h].pc = "idle"
    /\ \E r \in {PrepareTemp(View(h), NoPw, "none")} : Store(h, r, "prepared")

\* dest = temp_dir / arcroot; rmtree(dest) if it exists; copytree(path, dest)
CopyStep(h) ==
    /\ last[h].pc = "prepared"
    /\ \E src \in SrcDirs :
          \E r \in {CopyTreeInto(View(h), src, ArcRoot(src, NoName))} : Store(h, r, "copied")

\* self._recreate_7z(temp_dir) / self._recreate_tar(temp_dir)
RecreateStep(h) ==
    /\ last[h].pc = "copied"
    /\ \E r \in {RecreateShared(View(h), NoPw)} : Store(h, r, "returned")

NextRebuild == \E h \in Handles : PrepareStep(h) \/ CopyStep(h) \/ RecreateStep(h)

SpecRebuild == InitRebuild /\ [][NextRebuild]_vars

TypeOK ==
    /\ format \in Formats
    /\ password \in Passwords
    /\ temp_dir \in BOOLEAN
    /\ DOMAIN scratch.tree \subseteq PathSet
    /\ \A i \in 1..Len(archive.members) : archive.members[i].enc \in Passwords
    /\ format \in {"7z"} \cup TarFamily =>
         \A i \in 1..Len(archive.members) : archive.members[i].name \in PathSet

(***************************************************************************)
(* Vocabulary of the properties, stated on names and not through the       *)
(* operators above.                                                        *)
(***************************************************************************)
Unsupporting == {"gz", "bz2", "rar"}
MemberFormats == {"zip", "7z", "rar"} \cup TarFamily

\* the name n is m, or lies below m
NameSelected(n, m) ==
    \/ n = m
    \/ Len(n) >= Len(m) + 1 /\ n[Len(m) + 1] = "/" /\ \A i \in 1..Len(m) : n[i] = m[i]

\* the positions of the members an extract of m (NoName: everything) is about;
\* under a name written twice into a zip, the last one written
Current(i) == \A j \in (i + 1)..Len(archive.members) : archive.members[j].name # archive.members[i].name
Addressed(m) ==
    {i \in 1..Len(archive.members) :
        Current(i) /\ (m = NoName \/ NameSelected(archive.members[i].name, m))}

\* the destination holds the member at position i
Extracted(i) ==
    LET e == archive.members[i]
    IN e.name \in DOMAIN dest /\ dest[e.name] = e.data

ExtractDone == last.op = "extract"
AddDone == last.op = "add"

(***************************************************************************)
(* C1.  A rebuild add leaves no scratch directory on disk and no scratch   *)
(* reference in the handle when it returns, whether it succeeded or        *)
(* raised.                                                                 *)
(***************************************************************************)
C1_ScratchReleased ==
    (AddDone /\ last.rebuild) => (~scratch.exists /\ ~temp_dir)

(***************************************************************************)
(* C2.  create() on a gz, bz2 or rar handle raises UnsupportedOperation    *)
(* and leaves the archive path as it was.                                  *)
(***************************************************************************)
C2_CreateUnsupported ==
    [][(last'.op = "create" /\ format \in Unsupporting)
        => (last'.res = UnsupportedOperation /\ archive' = archive)]_vars

(***************************************************************************)
(* C3.  add() of an existing file or directory on a gz, bz2 or rar handle  *)
(* raises UnsupportedOperation, leaves the archive file unchanged and      *)
(* leaves no scratch directory.                                            *)
(***************************************************************************)
C3_AddUnsupported ==
    [][(last'.op = "add" /\ last'.kind \in {"file", "dir"} /\ format \in Unsupporting)
        => (/\ last'.res = UnsupportedOperation
            /\ archive' = archive
            /\ ~scratch'.exists
            /\ temp_dir' = temp_dir)]_vars

C3_Witness ==
    /\ AddDone /\ last.kind = "dir" /\ format = "rar"
    /\ last.res = UnsupportedOperation /\ archive.exists

(***************************************************************************)
(* C4.  add() of a path that does not exist raises SourceNotFound on every *)
(* handle and changes neither the container, nor its listing, nor the      *)
(* scratch directory, nor the handle's scratch reference.                  *)
(***************************************************************************)
C4_MissingSource ==
    [][(last'.op = "add" /\ last'.kind = "missing")
        => (/\ last'.res = SourceNotFound
            /\ archive' = archive
            /\ Iter(format, pyzipper, archive') = Iter(format, pyzipper, archive)
            /\ scratch' = scratch
            /\ temp_dir' = temp_dir)]_vars

C4_Witness ==
    /\ AddDone /\ last.kind = "missing" /\ last.res = SourceNotFound
    /\ format = "7z" /\ Len(archive.members) > 0 /\ scratch.exists /\ temp_dir

(***************************************************************************)
(* C5.  Round trip: after add(file) returned, extract() of the whole       *)
(* archive into a fresh directory puts a file with the source's content at *)
(* the member name.                                                        *)
(***************************************************************************)
C5_RoundTrip ==
    (/\ ExtractDone /\ last.member = NoName /\ last.res = OK
     /\ last.added # << >> /\ last.added[1] = "file")
        => (last.added[2] \in DOMAIN dest /\ dest[last.added[2]] = last.added[3])

NoClash(A) ==
    \A i \in A, j \in A :
        (i # j /\ ~archive.members[i].dir)
            => ~NameSelected(archive.members[j].name, archive.members[i].name)

C7_MemberPrefix ==
    (ExtractDone /\ last.member # NoName /\ format \in MemberFormats) =>
        LET A == Addressed(last.member)
        IN /\ \A p \in DOMAIN dest :
                 IF dest[p] = DIR
                 THEN \E i \in A : NameSelected(archive.members[i].name, p)
                 ELSE \E i \in A : archive.members[i].name = p /\ archive.members[i].data = dest[p]
           /\ last.res = OK => \A i \in A : Extracted(i)

C7_Witness ==
    /\ ExtractDone /\ last.member = nR /\ last.res = OK
    /\ \E i \in 1..Len(archive.members) : archive.members[i].name = nRX
    /\ nRX \notin DOMAIN dest
    /\ IsFile(dest, Join(nR, nX)) /\ IsFile(dest, Join(nR, nSY))

(***************************************************************************)
(* C8.  extract of a member m from a readable zip, 7z, tar-family or rar   *)
(* archive that has no member named m or below m raises MemberNotFound and *)
(* writes nothing into the destination.                                    *)
(***************************************************************************)
C8_MemberNotFound ==
    (/\ ExtractDone /\ last.member # NoName /\ format \in MemberFormats
     /\ archive.exists /\ ~archive.broken
     /\ \A i \in 1..Len(archive.members) : ~NameSelected(archive.members[i].name, last.member))
        => (last.res = MemberNotFound /\ DOMAIN dest = {})

C8_Witness ==
    /\ ExtractDone /\ last.member = nR /\ last.res = MemberNotFound
    /\ \E i \in 1..Len(archive.members) : archive.members[i].name = nRX

Creatable == {"zip", "7z", "tar", "tar.gz", "tar.bz2"}

C11_EmptyArchive ==
    (last.op = "create" /\ format \in Creatable) =>
        LET listed == ListFiles(format, pyzipper, archive)
        IN /\ last.res = OK
           /\ archive.exists
           /\ listed.res = OK
           /\ listed.names = << >>

\* the scratch directory of a failed rebuild is still there: the path held a
\* container with members, or a truncated one, before the call
C11_Witness ==
    /\ last.op = "create" /\ format = "tar.gz" /\ last.res = OK
    /\ scratch.exists
    /\ archive.exists /\ archive.members = << >>

(***************************************************************************)
(* C14.  Format resolution is the reference function: with a format        *)
(* argument the tag is that string lower-cased, whatever the suffixes;     *)
(* without one, when the last two suffixes are .tar and .gz (.bz2) the tag *)
(* is tar.gz (tar.bz2), otherwise the tag is the table entry of the last   *)
(* suffix, so that .tgz and .tar.gz give the same tag.                     *)
(***************************************************************************)
IsLowerOf(t, u) ==
    /\ Len(t) = Len(u)
    /\ \A i \in 1..Len(u) :
          \/ t[i] = u[i] /\ \A k \in 1..Len(UpperLetters) : UpperLetters[k] # u[i]
          \/ \E k \in 1..Len(UpperLetters) : UpperLetters[k] = u[i] /\ LowerLetters[k] = t[i]

RefTable(sfx) ==
    CASE sfx = <<".", "z", "i", "p">> -> <<"z", "i", "p">>
      [] sfx = <<".", "7", "z">> -> <<"7", "z">>
      [] sfx = <<".", "t", "a", "r">> -> <<"t", "a", "r">>
      [] sfx = <<".", "g", "z">> -> <<"g", "z">>
      [] sfx = <<".", "b", "z", "2">> -> <<"b", "z", "2">>
      [] sfx = <<".", "r", "a", "r">> -> <<"r", "a", "r">>
      [] sfx = <<".", "t", "g", "z">> -> <<"t", "a", "r", ".", "g", "z">>
      [] sfx = <<".", "t", "b", "z", "2">> -> <<"t", "a", "r", ".", "b", "z", "2">>
      [] OTHER -> << >>

EndsWith(ss, a, b) == Len(ss) >= 2 /\ ss[Len(ss) - 1] = a /\ ss[Len(ss)] = b

C14_Resolution ==
    last.op = "construct" =>
        LET ss == last.suffixes
            tarGz == EndsWith(ss, <<".", "t", "a", "r">>, <<".", "g", "z">>)
            tarBz2 == EndsWith(ss, <<".", "t", "a", "r">>, <<".", "b", "z", "2">>)
        IN /\ last.explicit # NoFormat =>
                (last.res = OK /\ IsLowerOf(format, last.explicit))
           /\ (last.explicit = NoFormat /\ tarGz) =>
                (last.res = OK /\ format = <<"t", "a", "r", ".", "g", "z">>)
           /\ (last.explicit = NoFormat /\ tarBz2) =>
                (last.res = OK /\ format = <<"t", "a", "r", ".", "b", "z", "2">>)
           /\ (/\ last.explicit = NoFormat /\ ~tarGz /\ ~tarBz2
               /\ ss # << >> /\ RefTable(ss[Len(ss)]) # << >>) =>
                (last.res = OK /\ format = RefTable(ss[Len(ss)]))

C14_Witness ==
    /\ last.op = "construct" /\ last.res = OK
    /\ last.explicit = NoFormat
    /\ last.suffixes = <<Dot(tZip), Dot(tTgz)>>
    /\ format = tTarGz

(***************************************************************************)
(* C15.  A path without a suffix and no format argument: the constructor   *)
(* raises UnresolvedFormat and there is no handle; with a format argument  *)
(* the same path gives a handle.                                           *)
(***************************************************************************)
C15_Unresolved ==
    (last.op = "construct" /\ last.suffixes = << >>) =>
        IF last.explicit = NoFormat
        THEN last.res = UnresolvedFormat /\ format = NoFormat
        ELSE last.res = OK /\ format # NoFormat

C15_Witness ==
    /\ last.op = "construct" /\ last.suffixes = << >> /\ last.explicit = NoFormat
    /\ last.res = UnresolvedFormat

(***************************************************************************)
(* C17.  Every handle the constructor returns has a tag of the closed set  *)
(* zip, 7z, tar, tar.gz, tar.bz2, gz, bz2, rar, for every suffix and every *)
(* format argument.                                                        *)
(***************************************************************************)
C17_ClosedTags ==
    (last.op = "construct" /\ last.res = OK) =>
        format \in { <<"z", "i", "p">>, <<"7", "z">>, <<"t", "a", "r">>,
                     <<"t", "a", "r", ".", "g", "z">>, <<"t", "a", "r", ".", "b", "z", "2">>,
                     <<"g", "z">>, <<"b", "z", "2">>, <<"r", "a", "r">> }

(***************************************************************************)
(* C12.  create_from validates the resolved tag: it raises                 *)
(* UnsupportedOperation, with nothing written, when the tag of the handle  *)
(* it constructed is outside zip, 7z, tar, tar.gz, tar.bz2, and does not   *)
(* raise it when the tag is inside.                                        *)
(***************************************************************************)
C12_CreateFromValidates ==
    [][last'.op = "create_from" =>
          IF format \notin Creatable
          THEN /\ last'.res = UnsupportedOperation
               /\ archive' = archive /\ scratch' = scratch
          ELSE last'.res # UnsupportedOperation]_vars

(***************************************************************************)
(* C13.  create_from on a creatable tag with a non-empty list leaves the   *)
(* disk as a new handle on (path, format, password) and add(item) for each *)
(* item in order leave it; with an empty list it leaves a container whose  *)
(* list() is empty.                                                        *)
(***************************************************************************)
RECURSIVE AddsInOrder(_, _)
AddsInOrder(st, files) ==
    IF files = << >> \/ st.res # OK THEN st
    ELSE AddsInOrder(Add(format, password, pyzipper, st, Head(files), NoName, "none"),
                     Tail(files))

C13_CreateFromIsAdds ==
    [][(last'.op = "create_from" /\ format \in Creatable) =>
          IF last'.files # << >>
          THEN LET ref == AddsInOrder([State EXCEPT !.temp_dir = FALSE], last'.files)
               IN /\ last'.res = ref.res
                  /\ archive' = ref.archive
                  /\ scratch' = ref.scratch
          ELSE LET listed == ListFiles(format, pyzipper, archive')
               IN archive'.exists /\ listed.res = OK /\ listed.names = << >>]_vars

(***************************************************************************)
(* C16.  The tag of a handle is fixed at construction: create, add,        *)
(* extract, list/iterate and cleanup, whether they return or raise, leave  *)
(* the format tag and the password of the handle as the constructor set    *)
(* them (the path of the handle is the one path of this model).            *)
(***************************************************************************)
C16_TagFixed ==
    [][last'.op \in {"create", "add", "extract", "list", "cleanup"} =>
          (format' = format /\ password' = password)]_vars

C16_Witness ==
    /\ last.op = "cleanup" /\ format = "7z" /\ password = "q"
    /\ archive.exists /\ ~scratch.exists

(***************************************************************************)
(* C18.  A gz or bz2 handle: list()/iterate() yield one name, the base     *)
(* name of the archive without its compression suffix, and extract()       *)
(* writes one file, the stream under that name, whatever member is asked   *)
(* for.                                                                    *)
(***************************************************************************)
\* the archive of the model is a.gz (a.bz2)
StreamName == <<"a">>

C18_SingleStream ==
    format \in {"gz", "bz2"} =>
        /\ last.op = "list" => (last.res = OK /\ last.names = <<StreamName>>)
        /\ last.op = "extract" =>
              /\ last.res = OK
              /\ DOMAIN dest = {StreamName}
              /\ dest[StreamName] = archive.members[1].data

C18_Witness ==
    /\ format = "bz2" /\ last.op = "extract" /\ last.member = nR
    /\ last.res = OK /\ IsFile(dest, StreamName)

C21_CleanupOnce ==
    (AddDone /\ last.rebuild) => last.cleanups = 1

(***************************************************************************)
(* C22.  A scratch directory that is on disk and not referenced by the     *)
(* handle (left by a crashed run) is removed before a rebuild uses the     *)
(* location: after a rebuild add that returned, every member of the        *)
(* container was a member before the call or is what the add put there     *)
(* (the archive name, a directory above it, or a name below it).           *)
(***************************************************************************)
C22_StaleScratchRemoved ==
    [][(/\ last'.op = "add" /\ last'.rebuild /\ last'.res = OK
        /\ scratch.exists /\ ~temp_dir) =>
          \A i \in 1..Len(archive'.members) :
              LET n == archive'.members[i].name
              IN \/ \E j \in 1..Len(archive.members) : archive.members[j].name = n
                 \/ NameSelected(n, last'.name)
                 \/ NameSelected(last'.name, n)]_vars

(***************************************************************************)
(* C23.  Two rebuilds on handles bound to different archive paths never    *)
(* have the same scratch directory between prepare and recreate: the       *)
(* directory of a running rebuild is owned by it alone.                    *)
(***************************************************************************)
C23_ExclusiveScratch ==
    \A h1 \in {"h1", "h2"}, h2 \in {"h1", "h2"} :
        (/\ h1 # h2 /\ last[h1].path # last[h2].path
         /\ last[h1].pc \in {"prepared", "copied"}
         /\ last[h2].pc \in {"prepared", "copied"})
            => temp_dir[h1] # temp_dir[h2]

(***************************************************************************)
(* C24.  A rebuild add that returned (7z, or tar family on an existing     *)
(* container) has extracted, copied, recreated: every file member listed   *)
(* before the add is listed after it, unless it had the archive name of    *)
(* the add or a name below it, and the new entry is listed (the archive    *)
(* name of a file; for a directory, every file below it under the archive  *)
(* name), and the scratch directory is gone.                               *)
(***************************************************************************)
C24_RebuildKeepsMembers ==
    [][(last'.op = "add" /\ last'.rebuild /\ last'.res = OK) =>
          LET after == ListFiles(format, pyzipper, archive')
              listed(n) == \E k \in 1..Len(after.names) : after.names[k] = n
          IN /\ after.res = OK
             /\ ~scratch'.exists /\ ~temp_dir'
             /\ \A i \in 1..Len(archive.members) :
                   ~archive.members[i].dir =>
                      \/ listed(archive.members[i].name)
                      \/ NameSelected(archive.members[i].name, last'.name)
             /\ last'.kind = "file" => listed(last'.name)
             /\ last'.kind = "dir" =>
                   \A rel \in {nX, nSY} : listed(last'.name \o <<"/">> \o rel)]_vars

C24_Witness ==
    /\ AddDone /\ last.rebuild /\ last.res = OK /\ last.kind = "file"
    /\ format = "tar.bz2" /\ last.name = nX
    /\ \E i \in 1..Len(archive.members) : archive.members[i].name = nX
    /\ \E i \in 1..Len(archive.members) : archive.members[i].name = Join(nR, nSY)
    /\ \E i \in 1..Len(archive.members) : archive.members[i].name = Join(nRX, nX)

(***************************************************************************)
(* C25.  add() of an existing file or directory on a tar, tar.gz or        *)
(* tar.bz2 handle: when the container is on disk the call goes through the *)
(* scratch directory (it is removed by cleanup, or still there when the    *)
(* call raised); when the container is not on disk the call returns with a *)
(* container of exactly the file or the tree, no scratch directory is made *)
(* or removed and the scratch reference of the handle stays unset.         *)
(***************************************************************************)
C25_TarDirectWrite ==
    [][(last'.op = "add" /\ last'.kind \in {"file", "dir"} /\ format \in TarFamily) =>
          IF archive.exists
          THEN \/ last'.cleanups >= 1
               \/ scratch'.exists /\ temp_dir'
          ELSE /\ last'.res = OK
               /\ archive'.exists /\ ~archive'.broken
               /\ last'.kind = "file" =>
                     /\ Len(archive'.members) = 1
                     /\ archive'.members[1].name = last'.name
                     /\ ~archive'.members[1].dir
                     /\ archive'.members[1].data = last'.data
               /\ last'.kind = "dir" =>
                     /\ {archive'.members[i].name : i \in 1..Len(archive'.members)} =
                           {last'.name} \cup
                           {last'.name \o <<"/">> \o rel : rel \in {nX, nS, nSY}}
                     /\ \A i \in 1..Len(archive'.members) :
                           \A rel \in {nX, nSY} :
                              archive'.members[i].name = last'.name \o <<"/">> \o rel
                                 => archive'.members[i].data = SrcTree[rel]
               /\ last'.cleanups = 0
               /\ scratch' = scratch /\ ~scratch'.exists
               /\ ~temp_dir /\ ~temp_dir']_vars

C25_Witness ==
    /\ AddDone /\ last.kind = "dir" /\ ~last.rebuild /\ last.res = OK
    /\ format = "tar.gz" /\ last.name = nRX
    /\ Len(archive.members) = 4 /\ ~scratch.exists /\ ~temp_dir

(***************************************************************************)
(* C26.  A rebuild add (7z, tar family) of a file under the archive name N *)
(* that returned, on an archive that had an entry N, a file or a           *)
(* directory: N is the new file, with the content of the source, and no    *)
(* member lies below N.                                                    *)
(***************************************************************************)
C26_CollidingEntryReplaced ==
    [][(/\ last'.op = "add" /\ last'.rebuild /\ last'.kind = "file" /\ last'.res = OK
        /\ \E j \in 1..Len(archive.members) : archive.members[j].name = last'.name) =>
          /\ \E i \in 1..Len(archive'.members) :
                /\ archive'.members[i].name = last'.name
                /\ ~archive'.members[i].dir
                /\ archive'.members[i].data = last'.data
          /\ \A i \in 1..Len(archive'.members) :
                archive'.members[i].name = last'.name
                   \/ ~NameSelected(archive'.members[i].name, last'.name)]_vars

(***************************************************************************)
(* C27.  add() of an existing file or directory on a zip handle appends in *)
(* place: the entries before the call stay as they were, in their places;  *)
(* when the call returns, the listing is the listing before followed by    *)
(* the new names (the archive name of a file, the names of the files below *)
(* a directory), also when a name is there already; and the scratch        *)
(* directory and the scratch reference are not touched.                    *)
(***************************************************************************)
C27_ZipAppend ==
    [][(last'.op = "add" /\ last'.kind \in {"file", "dir"} /\ format = "zip") =>
          LET before == NamesOf(archive.members)
              after == ListFiles(format, pyzipper, archive')
              n == Len(before)
          IN /\ scratch' = scratch /\ ~scratch'.exists
             /\ temp_dir' = temp_dir
             /\ Len(archive'.members) >= Len(archive.members)
             /\ \A i \in 1..Len(archive.members) : archive'.members[i] = archive.members[i]
             /\ last'.res = OK =>
                   /\ after.res = OK
                   /\ SubSeq(after.names, 1, n) = before
                   /\ last'.kind = "file" =>
                         after.names = before \o <<last'.name>>
                   /\ last'.kind = "dir" =>
                         /\ Len(after.names) = n + 2
                         /\ {after.names[n + 1], after.names[n + 2]} =
                               {last'.name \o <<"/">> \o rel : rel \in {nX, nSY}}]_vars

C27_Witness ==
    /\ AddDone /\ last.kind = "file" /\ format = "zip" /\ last.res = OK
    /\ Len(archive.members) = 2
    /\ archive.members[1].name = nX /\ archive.members[2].name = nX
    /\ archive.members[1].data # archive.members[2].data

(***************************************************************************)
(* C28.  list()/iterate() on a zip, 7z or tar-family handle: no name it    *)
(* yields is the name of a directory entry of the container (directories   *)
(* show only through the separators in the names of the files), and no     *)
(* name it yields holds a backslash.                                       *)
(***************************************************************************)
C28_DirectoriesImplicit ==
    (last.op = "list" /\ last.res = OK /\ format \in {"zip", "7z"} \cup TarFamily) =>
        \A k \in 1..Len(last.names) :
            /\ \A c \in 1..Len(last.names[k]) : last.names[k][c] # "\\"
            /\ \A i \in 1..Len(archive.members) :
                  archive.members[i].name = last.names[k] => ~archive.members[i].dir

(***************************************************************************)
(* C29.  A rebuild add that raised, at whatever step (extract to scratch,  *)
(* copy into scratch, recreate), leaves a container that had members as it *)
(* was before the call: the same members with the same content.            *)
(***************************************************************************)
C29_FailedAddKeepsContainer ==
    [][(/\ last'.op = "add" /\ last'.rebuild /\ last'.res # OK
        /\ archive.exists /\ ~archive.broken /\ archive.members # << >>)
          => archive' = archive]_vars

(***************************************************************************)
(* C30.  On a zip, 7z, tar-family or rar handle, extract of a member whose *)
(* name is one that list() returns for the archive does not raise          *)
(* MemberNotFound, also when the stored name holds a backslash.            *)
(***************************************************************************)
C30_ListedNamesExtract ==
    (ExtractDone /\ last.member # NoName /\ format \in MemberFormats) =>
        LET listed == ListFiles(format, pyzipper, archive)
        IN (listed.res = OK /\ \E k \in 1..Len(listed.names) : listed.names[k] = last.member)
              => last.res # MemberNotFound
====
